---- MODULE Spec2Model ----
(***************************************************************************)
(* Model of classifier.py: the classification-with-resilience pipeline of  *)
(* the Alpaca dataset classifier.                                          *)
(*                                                                         *)
(*   - the label normalisation of a raw model response (lines 62-69 and    *)
(*     116-121), computed on strings as Python computes it;                *)
(*   - classify_instruction (lines 33-73), the one-call client;            *)
(*   - the __main__ block (lines 286-311): liveness probe, then            *)
(*     classify_alpaca_dataset (lines 75-169): the per-record retry loop,  *)
(*     the result accumulation, the checkpoints, the final artifact and    *)
(*     the per-category artifacts; then the reporting passes (lines        *)
(*     171-284) over the final artifact, and the exit of the process.      *)
(*                                                                         *)
(* Strings are TLA+ strings; a character is a string of length one.        *)
(* The character repertoire is ASCII.  The control characters that have no *)
(* escape in a TLA+ string are written as themselves, once, in VT, FS, GS, *)
(* RS and US.                                                              *)
(***************************************************************************)
EXTENDS Integers, Sequences, FiniteSets, TLC

VARIABLES
    pc,               \* position of the program
    dataset,          \* dataset['train']: the input records, in order
    endpoint,         \* environment: how the model endpoint behaves in this run
    probe,            \* outcome of the liveness probe of __main__
    i,                \* records processed: the index i of the iteration of line 88 under way
    attempt,          \* loop index of `for attempt in range(max_retries)`
    category,         \* local variable `category`
    response,         \* raw text response.json()['response'] of the last call
    fault,            \* kind of the exception raised by the last call, if any
    results,          \* list `results`
    category_counts,  \* Counter `category_counts`
    failed_count,     \* counter `failed_count`
    inflight,         \* requests sent to the endpoint and not yet answered
    timeouts,         \* per record, the timeout of each request sent for it
    files,            \* every artifact written, in the order of the writes
    exit_status       \* << >> while the process runs, then << its exit status >>

vars == <<pc, dataset, endpoint, probe, i, attempt, category, response, fault, results,
          category_counts, failed_count, inflight, timeouts, files, exit_status>>

(***************************************************************************)
(* Program constants.                                                      *)
(***************************************************************************)
CATEGORIES ==
    << "history", "science", "mathematics", "literature", "technology",
       "business", "health_medicine", "geography", "arts", "sports", "law",
       "psychology", "philosophy", "education", "cooking_food", "travel",
       "entertainment", "language", "general_knowledge", "creative_writing",
       "other" >>

max_retries == 3

BaseTimeout == 60

CheckpointInterval == 500

\* Python's None.
None == "<None>"

\* `x in CATEGORIES` on the list.
InCategories(x) == \E k \in DOMAIN CATEGORIES : CATEGORIES[k] = x

CategorySet == { CATEGORIES[k] : k \in DOMAIN CATEGORIES }

(***************************************************************************)
(* String operations, as Python's str methods compute them.                *)
(***************************************************************************)
\* The characters 0x0b, 0x1c, 0x1d, 0x1e and 0x1f.
VT == ""

FS == ""

GS == ""

RS == ""

US == ""

\* The ASCII characters str.strip() and str.split() take for whitespace
\* (str.isspace): 0x09-0x0d, 0x1c-0x1f and the space.
Whitespace == { " ", "\t", "\n", VT, "\f", "\r", FS, GS, RS, US }

UpperCase == "ABCDEFGHIJKLMNOPQRSTUVWXYZ"

LowerCase == "abcdefghijklmnopqrstuvwxyz"

Char(s, k) == SubSeq(s, k, k)

LowerChar(c) ==
    IF \E k \in 1..Len(UpperCase) : Char(UpperCase, k) = c
    THEN Char(LowerCase, CHOOSE k \in 1..Len(UpperCase) : Char(UpperCase, k) = c)
    ELSE c

\* str.lower()
RECURSIVE Lower(_)
Lower(s) == IF s = "" THEN "" ELSE LowerChar(Head(s)) \o Lower(Tail(s))

RECURSIVE LStrip(_)
LStrip(s) ==
    IF s # "" /\ Head(s) \in Whitespace THEN LStrip(Tail(s)) ELSE s

RECURSIVE RStrip(_)
RStrip(s) ==
    IF s # "" /\ Char(s, Len(s)) \in Whitespace
    THEN RStrip(SubSeq(s, 1, Len(s) - 1))
    ELSE s

\* str.strip()
Strip(s) == RStrip(LStrip(s))

\* str.replace(old, ""), old non-empty: every non-overlapping occurrence of
\* old, found left to right, is removed; the result is not scanned again.
RECURSIVE Remove(_, _)
Remove(s, old) ==
    IF Len(s) < Len(old) THEN s
    ELSE IF SubSeq(s, 1, Len(old)) = old
         THEN Remove(SubSeq(s, Len(old) + 1, Len(s)), old)
         ELSE Head(s) \o Remove(Tail(s), old)

\* The longest prefix of s without whitespace.
RECURSIVE Word(_)
Word(s) ==
    IF s = "" \/ Head(s) \in Whitespace THEN "" ELSE Head(s) \o Word(Tail(s))

\* str.split(): the maximal runs of non-whitespace characters, in order.
RECURSIVE Split(_)
Split(s) ==
    LET t == LStrip(s) IN
    IF t = "" THEN << >>
    ELSE << Word(t) >> \o Split(SubSeq(t, Len(Word(t)) + 1, Len(t)))

(***************************************************************************)
(* Label normalisation, lines 116-121 (the same statements as lines 62-69  *)
(* of classify_instruction).                                               *)
(***************************************************************************)
\* category = response.json()['response'].strip().lower()
NormLower(raw) == Lower(Strip(raw))

\* category = category.replace("category:", "").strip()
NormMarker(c) == Strip(Remove(c, "category:"))

\* category = category.split()[0] if category.split() else "other"
NormFirstToken(c) == IF Split(c) # << >> THEN Split(c)[1] ELSE "other"

\* if category not in CATEGORIES: category = "other"
NormMember(c) == IF ~InCategories(c) THEN "other" ELSE c

\* The one element of a singleton set.
The(S) == CHOOSE x \in S : TRUE

\* Variant of Normalize without the membership test of lines 120-121.
Normalize_NoMembership(raw) ==
    The({ NormFirstToken(b) : b \in { NormMarker(a) : a \in { NormLower(raw) } } })

\* The four statements in sequence; the value each one assigns to category
\* is bound (as the element of a singleton) before the next one reads it.
Normalize(raw) ==
    The({ NormMember(c) : c \in
            { NormFirstToken(b) : b \in { NormMarker(a) : a \in { NormLower(raw) } } } })

(***************************************************************************)
(* Bounds of the model and the inputs drawn within them.                   *)
(***************************************************************************)
\* Longest dataset of the pipeline specification Spec.
MaxRecords == 2

\* Longest dataset of the long-batch specification SpecBatch.
MaxBatch == 1001

\* Number of fragments a raw response of the client specification is made of.
MaxPieces == 3

\* Records of the source dataset (fields instruction, input, output).
Examples ==
    { [instruction |-> "Name a Roman emperor.", input |-> "", output |-> "Augustus"],
      [instruction |-> "Add the two numbers.", input |-> "2 3", output |-> "5"] }

RECURSIVE SeqsUpTo(_, _)
SeqsUpTo(S, n) ==
    IF n = 0 THEN { << >> }
    ELSE LET shorter == SeqsUpTo(S, n - 1) IN
         shorter \cup { Append(q, x) : q \in { r \in shorter : Len(r) = n - 1 }, x \in S }

\* Datasets of Spec: every sequence of at most MaxRecords examples.
Datasets == SeqsUpTo(Examples, MaxRecords)

\* Datasets of SpecBatch: the two examples in alternation, of the lengths
\* MaxBatch - 2 .. MaxBatch and one checkpoint interval less.
AlternatingExample(k) ==
    IF k % 2 = 1
    THEN [instruction |-> "Name a Roman emperor.", input |-> "", output |-> "Augustus"]
    ELSE [instruction |-> "Add the two numbers.", input |-> "2 3", output |-> "5"]

BatchSizes ==
    { n \in 0..MaxBatch : MaxBatch - n \in { 0, 1, 2 }
                          \/ MaxBatch - n - CheckpointInterval \in { 0, 1, 2 } }

BatchDatasets == { [k \in 1..n |-> AlternatingExample(k)] : n \in BatchSizes }

\* Raw response texts the endpoint returns in Spec.
Responses ==
    { "history", " Science\n", "Category: History extra words", "  ",
      "I think it is" \o VT \o "history", "sciencecategory:" }

\* Raw response texts of the client specification: up to MaxPieces fragments.
Pieces ==
    { " ", "\n", VT, US, "Category:", "category:", "History", "science", "other",
      "cat", "egory:", "law", "_", "x" }

RECURSIVE Concats(_)
Concats(n) ==
    IF n = 0 THEN { "" }
    ELSE LET shorter == Concats(n - 1) IN
         shorter \cup { a \o b : a \in shorter, b \in Pieces }

RawStrings == Concats(MaxPieces)

\* The ways a call to the endpoint raises: requests.post raises (connection
\* error, timeout expiry), or the body is not JSON / has no text 'response'.
FaultKinds == { "transport", "timeout", "malformed" }

\* Behaviour of the endpoint over a run: "flaky" answers or fails each call
\* freely, "up" answers every call, "down" fails every call.
EndpointModes == { "flaky", "up", "down" }

RepliesOf(mode) ==
    CASE mode = "flaky" -> Responses
      [] mode = "up"    -> { "Category: History extra words" }
      [] OTHER          -> { }

FaultsOf(mode) ==
    CASE mode = "flaky" -> FaultKinds
      [] mode = "down"  -> { "timeout" }
      [] OTHER          -> { }

(***************************************************************************)
(* State after construction: the process has started, nothing has run.     *)
(* results, category_counts and failed_count hold the values lines 81-86   *)
(* give them.                                                              *)
(***************************************************************************)
Start(ds, mode) ==
    /\ pc = "probe"
    /\ dataset = ds
    /\ endpoint = mode
    /\ probe = None
    /\ i = 0
    /\ attempt = 0
    /\ category = None
    /\ response = None
    /\ fault = None
    /\ results = << >>
    /\ category_counts = << >>
    /\ failed_count = 0
    /\ inflight = { }
    /\ timeouts = << >>
    /\ files = << >>
    /\ exit_status = << >>

Init == \E ds \in Datasets : Start(ds, "flaky")

BatchInit == \E ds \in BatchDatasets, mode \in { "up", "down" } : Start(ds, mode)

(***************************************************************************)
(* __main__, lines 286-299: the liveness probe.                            *)
(***************************************************************************)
\* requests.get(.../api/tags) returns: classify_alpaca_dataset() is called.
\* With an empty dataset the for loop of line 88 has no iteration.
ProbeOk ==
    /\ pc = "probe"
    /\ probe' = "reachable"
    /\ pc' = IF Len(dataset) = 0 THEN "save_final" ELSE "send"
    /\ UNCHANGED <<dataset, endpoint, i, attempt, category, response, fault, results,
                   category_counts, failed_count, inflight, timeouts, files, exit_status>>

\* Variant of ProbeFails without the exit(1) of line 296: the messages are
\* printed and the run goes on.
ProbeFails_Continues ==
    /\ pc = "probe"
    /\ probe' = "unreachable"
    /\ pc' = IF Len(dataset) = 0 THEN "save_final" ELSE "send"
    /\ UNCHANGED <<dataset, endpoint, i, attempt, category, response, fault, results,
                   category_counts, failed_count, inflight, timeouts, files, exit_status>>

\* requests.get raises: the messages are printed and exit(1) is called.
ProbeFails ==
    /\ pc = "probe"
    /\ probe' = "unreachable"
    /\ pc' = "aborted"
    /\ exit_status' = << 1 >>
    /\ UNCHANGED <<dataset, endpoint, i, attempt, category, response, fault, results,
                   category_counts, failed_count, inflight, timeouts, files>>

(***************************************************************************)
(* classify_alpaca_dataset, lines 88-147: the loop over the records.       *)
(***************************************************************************)
\* Variant of TimeoutVal that multiplies by the loop index: 60 * attempt.
TimeoutVal_FromZero(a) == BaseTimeout * a

\* timeout_val = 60 * (attempt + 1)
TimeoutVal(a) == BaseTimeout * (a + 1)

\* Variant of Increment that assigns 1 instead of adding it.
Increment_Overwrite(counts, c) ==
    IF c \in DOMAIN counts
    THEN [counts EXCEPT ![c] = 1]
    ELSE (c :> 1) @@ counts

\* category_counts[category] += 1 on a Counter.
Increment(counts, c) ==
    IF c \in DOMAIN counts
    THEN [counts EXCEPT ![c] = @ + 1]
    ELSE (c :> 1) @@ counts

\* f'alpaca_categorized_checkpoint_{i+1}.json'
CheckpointName(n) == "alpaca_categorized_checkpoint_" \o ToString(n) \o ".json"

\* Variant of CheckpointDue that tests the loop index i, not i + 1.
CheckpointDue_LoopIndex(n) == (n - 1) % CheckpointInterval = 0

\* if (i + 1) % 500 == 0
CheckpointDue(n) == n % CheckpointInterval = 0

\* Variant of Appended that assigns a new one-record list to results.
Appended_Replaces(res, example, c) ==
    << [instruction |-> example.instruction,
        input       |-> example.input,
        output      |-> example.output,
        category    |-> c] >>

\* Variant of Appended that inserts the record at the front of the list.
Appended_AtFront(res, example, c) ==
    << [instruction |-> example.instruction,
        input       |-> example.input,
        output      |-> example.output,
        category    |-> c] >> \o res

\* The list after results.append({...}) of lines 133-138.
Appended(res, example, c) ==
    Append(res, [instruction |-> example.instruction,
                 input       |-> example.input,
                 output      |-> example.output,
                 category    |-> c])

\* Lines 133-147, then the next iteration of line 88 or the end of the loop:
\* the record is appended with category c, counted, and the checkpoint is
\* written when i + 1 is a multiple of the interval.
FinishRecord(c) ==
    LET appended == Appended(results, dataset[i + 1], c) IN
    /\ results' = appended
    /\ category_counts' = Increment(category_counts, c)
    /\ files' = IF CheckpointDue(i + 1)
                THEN Append(files, [name |-> CheckpointName(i + 1), content |-> appended])
                ELSE files
    /\ i' = i + 1
    /\ attempt' = 0
    /\ pc' = IF i + 1 < Len(dataset) THEN "send" ELSE "save_final"

\* Variant of SendRequest that does not block on the call: the next attempt
\* is sent while the earlier ones are still unanswered.
SendRequest_NoBlock ==
    /\ pc = "send"
    /\ category' = IF attempt = 0 THEN None ELSE category
    /\ inflight' = inflight \cup { [record |-> i, attempt |-> attempt,
                                    timeout |-> TimeoutVal(attempt)] }
    /\ timeouts' = IF Len(timeouts) = i
                   THEN Append(timeouts, << TimeoutVal(attempt) >>)
                   ELSE [timeouts EXCEPT ![i + 1] = Append(@, TimeoutVal(attempt))]
    /\ response' = None
    /\ fault' = None
    /\ IF attempt < max_retries - 1
       THEN attempt' = attempt + 1 /\ pc' = "send"
       ELSE attempt' = attempt /\ pc' = "wait"
    /\ UNCHANGED <<dataset, endpoint, probe, i, results, category_counts,
                   failed_count, files, exit_status>>

\* Lines 90-114: requests.post is called with the attempt's timeout and the
\* program blocks on it.  The first attempt of a record follows lines 90-91.
SendRequest ==
    /\ pc = "send"
    /\ category' = IF attempt = 0 THEN None ELSE category
    /\ inflight' = inflight \cup { [record |-> i, attempt |-> attempt,
                                    timeout |-> TimeoutVal(attempt)] }
    /\ timeouts' = IF Len(timeouts) = i
                   THEN Append(timeouts, << TimeoutVal(attempt) >>)
                   ELSE [timeouts EXCEPT ![i + 1] = Append(@, TimeoutVal(attempt))]
    /\ response' = None
    /\ fault' = None
    /\ pc' = "wait"
    /\ UNCHANGED <<dataset, endpoint, probe, i, attempt, results, category_counts,
                   failed_count, files, exit_status>>

\* Variant of ReceiveResponse that counts a response normalised to "other"
\* as a failed classification.
ReceiveResponse_CountsOther ==
    /\ pc = "wait"
    /\ \E raw \in RepliesOf(endpoint) :
         /\ response' = raw
         /\ category' = Normalize(raw)
         /\ failed_count' = IF Normalize(raw) = "other" THEN failed_count + 1
                            ELSE failed_count
         /\ FinishRecord(Normalize(raw))
    /\ inflight' = { }
    /\ UNCHANGED <<dataset, endpoint, probe, fault, timeouts, exit_status>>

\* Variant of ReceiveResponse without the break of line 123: after a response
\* the retry loop goes on to its next attempt, if there is one.
ReceiveResponse_NoBreak ==
    /\ pc = "wait"
    /\ \E raw \in RepliesOf(endpoint) :
         /\ response' = raw
         /\ category' = Normalize(raw)
         /\ IF attempt = max_retries - 1
            THEN FinishRecord(Normalize(raw))
            ELSE /\ attempt' = attempt + 1
                 /\ pc' = "send"
                 /\ UNCHANGED <<i, results, category_counts, files>>
    /\ inflight' = { }
    /\ UNCHANGED <<dataset, endpoint, probe, fault, failed_count, timeouts, exit_status>>

\* Lines 116-123 and 133-147: the call returns a body whose 'response' is the
\* text raw; the label is normalised, the retry loop is left, the record is
\* appended.
ReceiveResponse ==
    /\ pc = "wait"
    /\ \E raw \in RepliesOf(endpoint) :
         /\ response' = raw
         /\ category' = Normalize(raw)
         /\ FinishRecord(Normalize(raw))
    /\ inflight' = { }
    /\ UNCHANGED <<dataset, endpoint, probe, fault, failed_count, timeouts, exit_status>>

\* Variant of AttemptFails without the assignment of line 128: after the
\* last failed attempt category keeps the None of line 91.
AttemptFails_NoFallback ==
    /\ pc = "wait"
    /\ \E kind \in FaultsOf(endpoint) : fault' = kind
    /\ inflight' = { }
    /\ IF attempt = max_retries - 1
       THEN /\ category' = category
            /\ failed_count' = failed_count + 1
            /\ FinishRecord(category)
       ELSE /\ attempt' = attempt + 1
            /\ pc' = "send"
            /\ UNCHANGED <<i, category, results, category_counts, failed_count, files>>
    /\ UNCHANGED <<dataset, endpoint, probe, response, timeouts, exit_status>>

\* Variant of AttemptFails whose fallback of line 128 is "general_knowledge".
AttemptFails_OtherFallback ==
    /\ pc = "wait"
    /\ \E kind \in FaultsOf(endpoint) : fault' = kind
    /\ inflight' = { }
    /\ IF attempt = max_retries - 1
       THEN /\ category' = "general_knowledge"
            /\ failed_count' = failed_count + 1
            /\ FinishRecord("general_knowledge")
       ELSE /\ attempt' = attempt + 1
            /\ pc' = "send"
            /\ UNCHANGED <<i, category, results, category_counts, failed_count, files>>
    /\ UNCHANGED <<dataset, endpoint, probe, response, timeouts, exit_status>>

\* Variant of AttemptFails with line 129 moved out of the if: failed_count is
\* incremented on every failed attempt.
AttemptFails_CountsEach ==
    /\ pc = "wait"
    /\ \E kind \in FaultsOf(endpoint) : fault' = kind
    /\ inflight' = { }
    /\ failed_count' = failed_count + 1
    /\ IF attempt = max_retries - 1
       THEN /\ category' = "other"
            /\ FinishRecord("other")
       ELSE /\ attempt' = attempt + 1
            /\ pc' = "send"
            /\ UNCHANGED <<i, category, results, category_counts, files>>
    /\ UNCHANGED <<dataset, endpoint, probe, response, timeouts, exit_status>>

\* Lines 125-131: the call (or reading its body) raises.  On the last attempt
\* the record gets "other" and failed_count is incremented, then lines
\* 133-147 run; otherwise the next attempt follows.
AttemptFails ==
    /\ pc = "wait"
    /\ \E kind \in FaultsOf(endpoint) : fault' = kind
    /\ inflight' = { }
    /\ IF attempt = max_retries - 1
       THEN /\ category' = "other"
            /\ failed_count' = failed_count + 1
            /\ FinishRecord("other")
       ELSE /\ attempt' = attempt + 1
            /\ pc' = "send"
            /\ UNCHANGED <<i, category, results, category_counts, failed_count, files>>
    /\ UNCHANGED <<dataset, endpoint, probe, response, timeouts, exit_status>>

(***************************************************************************)
(* classify_alpaca_dataset, lines 149-169: the artifacts of the full pass. *)
(***************************************************************************)
\* Lines 150-151.
SaveFinal ==
    /\ pc = "save_final"
    /\ files' = Append(files, [name |-> "alpaca_categorized_final.json", content |-> results])
    /\ pc' = "partition"
    /\ UNCHANGED <<dataset, endpoint, probe, i, attempt, category, response, fault, results,
                   category_counts, failed_count, inflight, timeouts, exit_status>>

\* categorized_data after lines 159-161, when no lookup fails.
CategorizedData(res) ==
    [c \in CategorySet |-> SelectSeq(res, LAMBDA item : item.category = c)]

\* f'alpaca_{category}.json'
CategoryFileName(c) == "alpaca_" \o c \o ".json"

\* Variant of CategoryFiles without the `if items` of line 164.
RECURSIVE CategoryFiles_WritesEmpty(_, _)
CategoryFiles_WritesEmpty(data, k) ==
    IF k > Len(CATEGORIES) THEN << >>
    ELSE << [name |-> CategoryFileName(CATEGORIES[k]), content |-> data[CATEGORIES[k]]] >>
         \o CategoryFiles_WritesEmpty(data, k + 1)

\* Variant of CategoryFiles that dumps results, not items, into every file.
RECURSIVE CategoryFiles_DumpsResults(_, _)
CategoryFiles_DumpsResults(data, k) ==
    IF k > Len(CATEGORIES) THEN << >>
    ELSE (IF data[CATEGORIES[k]] # << >>
          THEN << [name |-> CategoryFileName(CATEGORIES[k]), content |-> results] >>
          ELSE << >>)
         \o CategoryFiles_DumpsResults(data, k + 1)

\* Lines 163-166 from the k-th key on: the keys are visited in the order of
\* CATEGORIES, a file is written for each non-empty list.
RECURSIVE CategoryFiles(_, _)
CategoryFiles(data, k) ==
    IF k > Len(CATEGORIES) THEN << >>
    ELSE (IF data[CATEGORIES[k]] # << >>
          THEN << [name |-> CategoryFileName(CATEGORIES[k]), content |-> data[CATEGORIES[k]]] >>
          ELSE << >>)
         \o CategoryFiles(data, k + 1)

\* Position in res of the first record of category c: the position of the
\* key c in the insertion order of the Counter.
FirstAt(res, c) ==
    CHOOSE k \in DOMAIN res :
        /\ res[k].category = c
        /\ \A j \in 1..(k - 1) : res[j].category # c

\* The key of the last pair of category_counts.most_common(): the pairs are
\* sorted by decreasing count, pairs of equal count in insertion order.
MostCommonLast(counts, res) ==
    CHOOSE c \in DOMAIN counts :
        \A d \in DOMAIN counts \ { c } :
            \/ counts[d] > counts[c]
            \/ counts[d] = counts[c] /\ FirstAt(res, d) < FirstAt(res, c)

\* Lines 153-169.  The loop of line 155 binds the local category to each key
\* of most_common() in turn (to none when the Counter is empty).
\* categorized_data[item['category']] raises KeyError for a category that is
\* no key, before any per-category file is written.  Otherwise the loop of
\* line 163 binds category to each key of categorized_data, the last being
\* the last entry of CATEGORIES.
WriteCategoryFiles ==
    /\ pc = "partition"
    /\ IF \E k \in DOMAIN results : ~InCategories(results[k].category)
       THEN /\ pc' = "crashed"
            /\ exit_status' = << 1 >>
            /\ files' = files
            /\ category' = IF DOMAIN category_counts = { } THEN category
                           ELSE MostCommonLast(category_counts, results)
       ELSE /\ pc' = "done"
            /\ exit_status' = exit_status
            /\ files' = files \o CategoryFiles(CategorizedData(results), 1)
            /\ category' = CATEGORIES[Len(CATEGORIES)]
    /\ UNCHANGED <<dataset, endpoint, probe, i, attempt, response, fault, results,
                   category_counts, failed_count, inflight, timeouts>>

(***************************************************************************)
(* __main__, lines 301-311: the reporting passes, each reading the final   *)
(* artifact back, and create_html_report, lines 230-284.                   *)
(***************************************************************************)
\* Default of the parameter results_file.
results_file == "alpaca_categorized_final.json"

\* json.load of the file written last under name.
Load(name) ==
    LET j == CHOOSE j \in DOMAIN files :
                 /\ files[j].name = name
                 /\ \A k \in (j + 1)..Len(files) : files[k].name # name
    IN  files[j].content

\* The printable ASCII characters in the order of their codes, without the
\* backquote (0x60), which a TLA+ string cannot hold.
Printable ==
    " !\"#$%&'()*+,-./0123456789:;<=>?@ABCDEFGHIJKLMNOPQRSTUVWXYZ[\\]^_"
    \o "abcdefghijklmnopqrstuvwxyz{|}~"

Code(c) == CHOOSE k \in 1..Len(Printable) : Char(Printable, k) = c

\* s < t on strings.
RECURSIVE StrLess(_, _)
StrLess(s, t) ==
    IF t = "" THEN FALSE
    ELSE IF s = "" THEN TRUE
    ELSE IF Head(s) = Head(t) THEN StrLess(Tail(s), Tail(t))
    ELSE Code(Head(s)) < Code(Head(t))

\* sorted(by_category.keys()): the k-th entry is the key that has k - 1
\* smaller keys.
Sorted(S) ==
    [k \in 1..Cardinality(S) |->
        CHOOSE x \in S : Cardinality({ y \in S : StrLess(y, x) }) = k - 1]

IsCased(c) ==
    \E k \in 1..Len(UpperCase) : Char(UpperCase, k) = c \/ Char(LowerCase, k) = c

UpperChar(c) ==
    IF \E k \in 1..Len(LowerCase) : Char(LowerCase, k) = c
    THEN Char(UpperCase, CHOOSE k \in 1..Len(LowerCase) : Char(LowerCase, k) = c)
    ELSE c

\* str.title(): a cased character is put in upper case after an uncased one
\* (or at the start) and in lower case after a cased one.
RECURSIVE TitleFrom(_, _)
TitleFrom(s, afterCased) ==
    IF s = "" THEN ""
    ELSE (IF afterCased THEN LowerChar(Head(s)) ELSE UpperChar(Head(s)))
         \o TitleFrom(Tail(s), IsCased(Head(s)))

Title(s) == TitleFrom(s, FALSE)

\* str.replace('_', ' ')
RECURSIVE Underscores(_)
Underscores(s) ==
    IF s = "" THEN ""
    ELSE (IF Head(s) = "_" THEN " " ELSE Head(s)) \o Underscores(Tail(s))

\* s[:n]
Take(s, n) == SubSeq(s, 1, IF Len(s) < n THEN Len(s) ELSE n)

\* Lines 236-251: the head of the page, with len(data).
HtmlHead(n) ==
    "\n    <html>\n    <head>\n"
    \o "        <title>Alpaca Classification Report</title>\n"
    \o "        <style>\n"
    \o "            body { font-family: Arial, sans-serif; margin: 20px; background: #f9f9f9; }\n"
    \o "            h1 { color: #333; }\n"
    \o "            .category { margin: 20px 0; padding: 15px; background: #fff; border-radius: 8px; box-shadow: 0 2px 4px rgba(0,0,0,0.1); }\n"
    \o "            .instruction { margin: 10px 0; padding: 10px; background: #f5f5f5; border-left: 4px solid #007bff; }\n"
    \o "            .count { color: #666; font-size: 0.9em; }\n"
    \o "        </style>\n    </head>\n    <body>\n"
    \o "        <h1>Alpaca Dataset Classification Report</h1>\n"
    \o "        <p><strong>Total instructions:</strong> " \o ToString(n) \o "</p>\n    "

\* Lines 271-276: one instruction of a category.
HtmlItem(item) ==
    "\n            <div class=\"instruction\">\n"
    \o "                <strong>Instruction:</strong> " \o item.instruction \o "<br>\n"
    \o "                "
    \o (IF item.input # ""
        THEN "<strong>Input:</strong> " \o Take(item.input, 200) \o "...<br>"
        ELSE "")
    \o "\n            </div>\n            "

\* Lines 269-275 from the k-th of the items on.
RECURSIVE HtmlItems(_, _)
HtmlItems(items, k) ==
    IF k > Len(items) THEN "" ELSE HtmlItem(items[k]) \o HtmlItems(items, k + 1)

\* Lines 263-277: the block of category c, with the first five of its items.
HtmlCategory(c, data) ==
    The({ "\n        <div class=\"category\">\n"
          \o "            <h2>" \o Title(Underscores(c)) \o " <span class=\"count\">("
          \o ToString(Len(items)) \o " instructions)</span></h2>\n        "
          \o HtmlItems(Take(items, 5), 1)
          \o "</div>"
          : items \in { SelectSeq(data, LAMBDA item : item.category = c) } })

\* Lines 262-277 from the k-th of the sorted keys on.
RECURSIVE HtmlCategories(_, _, _)
HtmlCategories(data, keys, k) ==
    IF k > Len(keys) THEN ""
    ELSE HtmlCategory(keys[k], data) \o HtmlCategories(data, keys, k + 1)

\* Lines 236-279: the page written to classification_report.html.
Html(data) ==
    The({ HtmlHead(Len(data)) \o HtmlCategories(data, keys, 1) \o "</body></html>"
          : keys \in { Sorted({ data[k].category : k \in DOMAIN data }) } })

\* Lines 301-311, after classify_alpaca_dataset has returned.
\* verify_categorization() reads the final artifact and prints samples.
\* check_quality() divides by len(data) (line 210): on an empty final
\* artifact it raises ZeroDivisionError and the process ends with status 1.
\* Otherwise create_html_report() writes the page and the process ends
\* with status 0.
RunReports ==
    /\ pc = "done"
    /\ \E data \in { Load(results_file) } :
         IF Len(data) = 0
         THEN /\ pc' = "quality_crashed"
              /\ exit_status' = << 1 >>
              /\ files' = files
         ELSE /\ pc' = "exited"
              /\ exit_status' = << 0 >>
              /\ files' = Append(files, [name    |-> "classification_report.html",
                                         content |-> Html(data)])
    /\ UNCHANGED <<dataset, endpoint, probe, i, attempt, category, response, fault, results,
                   category_counts, failed_count, inflight, timeouts>>

Next ==
    \/ ProbeOk
    \/ ProbeFails
    \/ SendRequest
    \/ AttemptFails
    \/ ReceiveResponse
    \/ SaveFinal
    \/ WriteCategoryFiles
    \/ RunReports

\* The pipeline on short datasets, the endpoint free on every call.
Spec == Init /\ [][Next]_vars

\* Spec, where the program keeps running and every call to the endpoint ends:
\* it returns, or it raises (at the latest when its timeout expires).
SpecFair == Init /\ [][Next]_vars /\ WF_vars(Next)

\* The pipeline on long datasets, the endpoint up or down for the whole run.
SpecBatch == BatchInit /\ [][Next]_vars

(***************************************************************************)
(* classify_instruction, lines 33-73: one call to the endpoint, the label  *)
(* normalised, every exception turned into the return value "other".       *)
(* The return value is held in category.                                   *)
(***************************************************************************)
ClientTimeout == 30

ClientInit ==
    /\ pc = "client_call"
    /\ dataset \in { << e >> : e \in Examples }
    /\ endpoint = "flaky"
    /\ probe = None
    /\ i = 0
    /\ attempt = 0
    /\ category = None
    /\ response = None
    /\ fault = None
    /\ results = << >>
    /\ category_counts = << >>
    /\ failed_count = 0
    /\ inflight = { }
    /\ timeouts = << >>
    /\ files = << >>
    /\ exit_status = << >>

\* Lines 48-60: requests.post with timeout=30.
ClientCall ==
    /\ pc = "client_call"
    /\ inflight' = { [record |-> 0, attempt |-> 0, timeout |-> ClientTimeout] }
    /\ timeouts' = << << ClientTimeout >> >>
    /\ pc' = "client_wait"
    /\ UNCHANGED <<dataset, endpoint, probe, i, attempt, category, response, fault, results,
                   category_counts, failed_count, files, exit_status>>

\* Lines 62-69: the call returns the text raw; its normalised label is returned.
ClientReturns ==
    /\ pc = "client_wait"
    /\ \E raw \in RawStrings :
         /\ response' = raw
         /\ category' = Normalize(raw)
    /\ inflight' = { }
    /\ pc' = "client_returned"
    /\ UNCHANGED <<dataset, endpoint, probe, i, attempt, fault, results, category_counts,
                   failed_count, timeouts, files, exit_status>>

\* Lines 71-73: the call raises; "other" is returned.
ClientFails ==
    /\ pc = "client_wait"
    /\ \E kind \in FaultKinds : fault' = kind
    /\ category' = "other"
    /\ inflight' = { }
    /\ pc' = "client_returned"
    /\ UNCHANGED <<dataset, endpoint, probe, i, attempt, response, results, category_counts,
                   failed_count, timeouts, files, exit_status>>

ClientNext ==
    \/ ClientCall
    \/ ClientReturns
    \/ ClientFails

\* One call of classify_instruction, on every raw response of RawStrings.
SpecClient == ClientInit /\ [][ClientNext]_vars

(***************************************************************************)
(* Properties.                                                             *)
(***************************************************************************)

\* C1: whatever the outcomes of the model calls, the retry loop of every
\* record ends and appends exactly one result record for it, with a category
\* of CATEGORIES: the results are as many as the records taken up so far,
\* all carry a category of the closed set, and a record whose first attempt
\* is due is followed by the state where it is the last of the results.
C1_LoopResolves ==
    /\ [](/\ Len(results) = i
          /\ \A k \in 1..Len(results) : results[k].category \in CategorySet)
    /\ \A n \in 0..(MaxRecords - 1) :
         (pc = "send" /\ i = n /\ attempt = 0) ~> (i = n + 1 /\ Len(results) = n + 1)

\* A record resolved by a response on its second attempt, after a failure.
C1_Witness ==
    /\ i = 1
    /\ Len(results) = 1
    /\ Len(timeouts[1]) = 2
    /\ response # None

\* C2: whatever raw text the model returns, the normalised label is a member
\* of CATEGORIES.
C2_NormalizedInCategories ==
    response # None => category \in CategorySet

\* The text "catcategory:egory:" leaves the token "category:" once the marker
\* is removed: an unknown token, normalised to "other".
C2_Witness ==
    /\ pc = "client_returned"
    /\ response = "catcategory:egory:"
    /\ category = "other"

\* C3: the timeouts of the successive requests of every record are a
\* non-empty prefix of 60, 120, 180: attempt k uses 60 * k and no record has
\* a fourth request.
C3_TimeoutSchedule ==
    /\ \A k \in DOMAIN timeouts :
         /\ Len(timeouts[k]) \in 1..3
         /\ timeouts[k] = SubSeq(<< 60, 120, 180 >>, 1, Len(timeouts[k]))
    /\ pc = "wait" => /\ Len(timeouts) = i + 1
                      /\ Len(timeouts[i + 1]) = attempt + 1
    /\ Len(timeouts) \in { Len(results), Len(results) + 1 }

\* Two records, each resolved after three failed attempts; no request follows
\* the third failure of the second.
C3_Witness ==
    /\ pc = "save_final"
    /\ fault # None
    /\ timeouts = << << 60, 120, 180 >>, << 60, 120, 180 >> >>

\* C4: a response on attempt k ends the attempts of its record, and the
\* record's category is the normalised text of that response: while the last
\* response is held it is the one of the last result, and the requests
\* logged for a record that has its result never change.
C4_StopAtFirstSuccess ==
    /\ [](response # None =>
            /\ i >= 1
            /\ Len(results) = i
            /\ attempt = 0
            /\ results[i].category = Normalize(response))
    /\ [][\A k \in 1..Len(results) :
            k \in DOMAIN timeouts /\ timeouts'[k] = timeouts[k]]_vars

\* The first of two records got " Science\n" on its second attempt; the next
\* request will be the first of the second record.
C4_Witness ==
    /\ pc = "send"
    /\ i = 1
    /\ response = " Science\n"
    /\ timeouts = << << 60, 120 >> >>
    /\ results[1].category = "science"

\* C5: the failure of the third attempt of a record gives the record the
\* category "other" and adds exactly 1 to failed_count; the failure of an
\* earlier attempt leaves failed_count and results as they are.
C5_ExhaustedFallback ==
    [][(pc = "wait" /\ fault' # None) =>
         IF Len(timeouts[i + 1]) = 3
         THEN /\ failed_count' = failed_count + 1
              /\ results' = Append(results, results'[Len(results')])
              /\ results'[Len(results')].category = "other"
         ELSE /\ failed_count' = failed_count
              /\ results' = results]_vars

\* One record, three failed attempts, counted once.
C5_Witness ==
    /\ i = 1
    /\ fault # None
    /\ Len(timeouts[1]) = 3
    /\ results[1].category = "other"
    /\ failed_count = 1

\* C6: the results follow the input order, each result record carrying the
\* instruction, input and output of the input record at its position, plus
\* a category; after the full pass there are as many results as records.
C6_OrderPreserved ==
    /\ Len(results) <= Len(dataset)
    /\ \A k \in 1..Len(results) :
         /\ DOMAIN results[k] = { "instruction", "input", "output", "category" }
         /\ results[k].instruction = dataset[k].instruction
         /\ results[k].input = dataset[k].input
         /\ results[k].output = dataset[k].output
    /\ pc \in { "save_final", "partition", "done", "exited", "quality_crashed" } =>
         Len(results) = Len(dataset)

\* A full pass over two different records that got different categories.
C6_Witness ==
    /\ pc = "done"
    /\ Len(dataset) = 2
    /\ dataset[1] # dataset[2]
    /\ results[1].category # results[2].category

\* Artifacts by name.
FinalName == "alpaca_categorized_final.json"

ReportName == "classification_report.html"

CheckpointPrefix == "alpaca_categorized_checkpoint_"

IsCheckpoint(f) ==
    /\ Len(f.name) >= Len(CheckpointPrefix)
    /\ SubSeq(f.name, 1, Len(CheckpointPrefix)) = CheckpointPrefix

\* C7: with i records processed the artifacts written in the loop are the
\* checkpoints of 500, 1000, ..., one for each multiple of 500 up to i, in
\* that order; the j-th is tagged 500 * j and holds the first 500 * j
\* results; after the pass of N records the final artifact follows the
\* floor(N / 500) checkpoints and no checkpoint follows it.
C7_Checkpoints ==
    /\ Len(files) >= i \div 500
    /\ \A j \in 1..(i \div 500) :
         /\ files[j].name = CheckpointPrefix \o ToString(500 * j) \o ".json"
         /\ Len(files[j].content) = 500 * j
         /\ files[j].content = SubSeq(results, 1, 500 * j)
    /\ pc \in { "probe", "aborted", "send", "wait", "save_final" } => Len(files) = i \div 500
    /\ pc \in { "partition", "done", "exited", "quality_crashed" } =>
         /\ Len(files) > Len(dataset) \div 500
         /\ files[(Len(dataset) \div 500) + 1] =
              [name |-> FinalName, content |-> results]
         /\ \A j \in ((Len(dataset) \div 500) + 1)..Len(files) : ~IsCheckpoint(files[j])

\* A full pass over 501 records: the checkpoint of 500 with 500 results, then
\* the final artifact with all 501.
C7_Witness ==
    /\ pc = "done"
    /\ Len(dataset) = 501
    /\ files[1].name = "alpaca_categorized_checkpoint_500.json"
    /\ Len(files[1].content) = 500
    /\ files[2].name = FinalName
    /\ Len(files[2].content) = 501

\* sum(category_counts.values())
RECURSIVE Total(_)
Total(counts) ==
    IF DOMAIN counts = { } THEN 0
    ELSE LET c == CHOOSE x \in DOMAIN counts : TRUE IN
         counts[c] + Total([x \in DOMAIN counts \ { c } |-> counts[x]])

\* C8: the per-category counts sum to the number of records processed so
\* far, the length of results.
C8_CountsSumToProcessed ==
    /\ Total(category_counts) = Len(results)
    /\ Len(results) = i

\* A full pass whose two records both got "history".
C8_Witness ==
    /\ pc = "done"
    /\ Len(results) = 2
    /\ "history" \in DOMAIN category_counts
    /\ category_counts["history"] = 2

\* C9: grouping never meets a category that is no key of the partition (no
\* result carries a category outside CATEGORIES, the run never ends in the
\* KeyError of line 161), and every artifact other than the checkpoints, the
\* final artifact and the HTML report is named after a category of
\* CATEGORIES and holds records of that category only.
C9_PartitionWithinCategories ==
    /\ pc # "crashed"
    /\ pc = "partition" => \A k \in DOMAIN results : InCategories(results[k].category)
    /\ \A j \in DOMAIN files :
         (files[j].name \notin { FinalName, ReportName } /\ ~IsCheckpoint(files[j])) =>
           \E c \in CategorySet :
             /\ files[j].name = "alpaca_" \o c \o ".json"
             /\ files[j].content # << >>
             /\ \A k \in DOMAIN files[j].content : files[j].content[k].category = c

\* A full pass over two records, one "history" and one "other": the final
\* artifact, then one artifact for each of the two categories.
C9_Witness ==
    /\ pc = "done"
    /\ Len(files) = 3
    /\ files[2].name = "alpaca_history.json"
    /\ files[3].name = "alpaca_other.json"
    /\ Len(files[2].content) = 1
    /\ Len(files[3].content) = 1

\* C10: once the probe has found the endpoint unreachable the run is
\* aborted with a non-zero exit status, and no record is processed: no
\* request is or was sent, no result exists and no artifact is written.
C10_AbortBeforeProcessing ==
    probe = "unreachable" =>
      /\ pc = "aborted"
      /\ exit_status # << >>
      /\ exit_status[1] # 0
      /\ i = 0
      /\ results = << >>
      /\ category_counts = << >>
      /\ inflight = { }
      /\ timeouts = << >>
      /\ files = << >>

\* The probe failed before a dataset of two records.
C10_Witness ==
    /\ pc = "aborted"
    /\ probe = "unreachable"
    /\ Len(dataset) = 2

\* C11: a failed call of classify_instruction is reported to the caller as a
\* failure and never as a Category: after a call that raised, whatever the
\* kind of the fault, the value returned is no member of CATEGORIES.
C11_FailureNotACategory ==
    (pc = "client_returned" /\ fault # None) => ~InCategories(category)

\* The reference normaliser of the specification: lowercase and trim, drop
\* the marker "category:" only where it leads the text, take the first
\* whitespace-delimited token, return it if it is in CATEGORIES, else "other".
RefDropLeadingMarker(c) ==
    IF Len(c) >= Len("category:") /\ SubSeq(c, 1, Len("category:")) = "category:"
    THEN SubSeq(c, Len("category:") + 1, Len(c))
    ELSE c

RefNormalize(raw) ==
    LET marked == The({ Strip(RefDropLeadingMarker(a)) : a \in { Lower(Strip(raw)) } })
        token  == IF Split(marked) # << >> THEN Split(marked)[1] ELSE "other"
    IN  IF token \in CategorySet THEN token ELSE "other"

\* C12: for every raw response the normalised label equals the result of
\* the reference normaliser.
C12_MatchesReference ==
    response # None => category = RefNormalize(response)

\* C13: failed_count changes only when the third attempt of a record fails,
\* and then by 1; a response leaves it as it is, after earlier failures and
\* when it is normalised to "other" alike, and a response always resolves
\* its record (no retry follows it).
C13_CountsOnlyExhaustion ==
    [][/\ failed_count' # failed_count =>
            /\ pc = "wait"
            /\ fault' # None
            /\ Len(timeouts[i + 1]) = 3
            /\ failed_count' = failed_count + 1
       /\ (pc = "wait" /\ response' # None) =>
            /\ failed_count' = failed_count
            /\ i' = i + 1
            /\ Len(results') = Len(results) + 1
            /\ pc' # "wait"
            /\ timeouts' = timeouts]_vars

\* The only record got the blank text "  " on its second attempt: category
\* "other", nothing counted as failed.
C13_Witness ==
    /\ i = 1
    /\ response = "  "
    /\ Len(timeouts[1]) = 2
    /\ results[1].category = "other"
    /\ failed_count = 0

\* C14: at most one request is in flight; it is a request for the record
\* being processed, whose predecessors all have their result appended and
\* which has none yet, and it is the latest request logged.
C14_Sequential ==
    /\ Cardinality(inflight) <= 1
    /\ (inflight # { }) <=> (pc = "wait")
    /\ \A r \in inflight :
         /\ r.record = i
         /\ r.attempt = attempt
         /\ Len(results) = r.record
         /\ Len(timeouts) = r.record + 1
         /\ Len(timeouts[r.record + 1]) = r.attempt + 1
    /\ Len(timeouts) <= Len(results) + 1

\* The second attempt for the second record is in flight, the first record
\* has its result.
C14_Witness ==
    /\ pc = "wait"
    /\ Len(results) = 1
    /\ inflight = { [record |-> 1, attempt |-> 1, timeout |-> 120] }

\* Position of the final artifact among the artifacts of a full pass.
FinalPosition == (Len(dataset) \div CheckpointInterval) + 1

\* C15: after the pass the final artifact holds all N classified records
\* and precedes every per-category artifact; a category has an artifact, and
\* only one, exactly if some record was assigned it, and the artifact holds
\* all the records of the category in input order.
C15_FinalThenCategories ==
    /\ pc = "partition" =>
         /\ Len(files) = FinalPosition
         /\ files[FinalPosition] = [name |-> FinalName, content |-> results]
         /\ Len(results) = Len(dataset)
    /\ pc = "done" =>
         /\ Len(files) >= FinalPosition
         /\ files[FinalPosition] = [name |-> FinalName, content |-> results]
         /\ Len(results) = Len(dataset)
         /\ \A j \in 1..(FinalPosition - 1) : IsCheckpoint(files[j])
         /\ \A c \in CategorySet :
              LET written == { j \in (FinalPosition + 1)..Len(files) :
                                 files[j].name = "alpaca_" \o c \o ".json" }
                  members == { k \in DOMAIN results : results[k].category = c }
              IN  /\ Cardinality(written) = IF members = { } THEN 0 ELSE 1
                  /\ \A j \in written :
                       files[j].content = SelectSeq(results, LAMBDA r : r.category = c)
         /\ \A j \in (FinalPosition + 1)..Len(files) :
              \E c \in CategorySet : files[j].name = "alpaca_" \o c \o ".json"

\* Two different records, both "science": the final artifact, then the one
\* artifact of science with both records in input order.
C15_Witness ==
    /\ pc = "done"
    /\ Len(files) = 2
    /\ files[1].name = FinalName
    /\ files[2].name = "alpaca_science.json"
    /\ Len(files[2].content) = 2
    /\ files[2].content[1].instruction = dataset[1].instruction
    /\ files[2].content[2].instruction = dataset[2].instruction
    /\ dataset[1] # dataset[2]

\* s is a prefix of t.
IsPrefix(s, t) == Len(s) <= Len(t) /\ SubSeq(t, 1, Len(s)) = s

\* C16: every step leaves the results so far in place (results is a prefix
\* of its next value), and of two checkpoint or final artifacts the earlier
\* holds a prefix of the later and of results.
C16_AppendOnly ==
    /\ [][IsPrefix(results, results')]_vars
    /\ [](\A j \in DOMAIN files :
            (IsCheckpoint(files[j]) \/ files[j].name = FinalName) =>
              /\ IsPrefix(files[j].content, results)
              /\ \A k \in j..Len(files) :
                   (IsCheckpoint(files[k]) \/ files[k].name = FinalName) =>
                     IsPrefix(files[j].content, files[k].content))

\* 500 records processed: the checkpoint of 500, then the final artifact.
C16_Witness ==
    /\ pc = "partition"
    /\ Len(dataset) = 500
    /\ Len(files) = 2
    /\ IsCheckpoint(files[1])
    /\ files[2].name = FinalName

\* C17: failed_count is at most the count of "other" in category_counts, at
\* most the number of records processed, and at most the number of results
\* that carry "other".
C17_FailedWithinOther ==
    /\ failed_count <= Len(results)
    /\ failed_count <= (IF "other" \in DOMAIN category_counts
                        THEN category_counts["other"] ELSE 0)
    /\ failed_count <= Cardinality({ k \in DOMAIN results : results[k].category = "other" })

\* Two records are "other", one by three failures and one by a response.
C17_Witness ==
    /\ Len(results) = 2
    /\ failed_count = 1
    /\ "other" \in DOMAIN category_counts
    /\ category_counts["other"] = 2

====
